---- MODULE Spec2Model ----
(***************************************************************************)
(* Model of src/memory_server.py: the Record Store (entities and           *)
(* observations in memory.db), the Journal Store (entries and the FTS5     *)
(* index entries_fts in the_void.sqlite3) and the tools that read and      *)
(* write them.                                                             *)
(*                                                                         *)
(* A tool that issues several SQL statements inside one transaction        *)
(* (store_memory) is modelled statement by statement: `entities`,          *)
(* `observations` and `seq` are the committed database, `txn` is the open  *)
(* write transaction of the connection that holds the write lock.  Tools   *)
(* that issue at most one writing statement are one action each.           *)
(***************************************************************************)
EXTENDS Integers, Sequences, FiniteSets, TLC

\* ---------------------------------------------------------------- bounds
MaxObs == 3      \* observation rows a run may insert
MaxEntities == 2 \* entity rows a run may insert
MaxClock == 1    \* last reading of the wall clock
MaxObsList == 4  \* observation rows a run of SpecList may insert
MaxEntries == 3  \* journal entries a run may insert
MaxLimit == 2    \* largest `limit` argument tried
NumProcs == 2    \* connections that may be open at once
MaxObsCore == 2  \* observation rows a run of SpecCore may insert

Procs == 1..NumProcs
SeqProcs == {1}  \* the caller of the sequential specification

\* ------------------------------------------------------- input domains
None == "<None>"                 \* Python None / SQL NULL
Names == {"a", "B"}
Namespaces == {"default", "work"}
Profiles == {<<"general", "active">>, <<"person", "foundational">>}
\* (entity_name, observation, entity_type, database, salience) of store_memory
WriteInputs == {<<n, "b", pr[1], d, pr[2]>> : n \in Names, d \in Namespaces, pr \in Profiles}
SearchInputs == {<<"a", "b", "general", "default", "active">>, <<"a", "x", "person", "default", "active">>,
                 <<"B", "x", "general", "default", "active">>, <<"a", "x", "general", "work", "active">>}
ListInputs == {<<"a", "b", "person", "default", "foundational">>, <<"a", "x", "general", "default", "active">>,
               <<"B", "b", "general", "default", "active">>, <<"a", "b", "person", "work", "foundational">>}
Queries == {"a", "b"}
Filters == {<<>>, <<"default">>, <<"work", "default">>}   \* `databases` of search_memories
SalienceFilters == {None, "foundational", "active"}
ContextInputs == {<<"a", "b", "person", "default", "foundational">>, <<"a", "x", "general", "work", "foundational">>,
                  <<"B", "x", "general", "default", "active">>}
\* (title, summary, decisions, open_loops, artifacts, tags, importance, session_id, thread_id)
\* of void_write_entry; artifacts is a sequence of <<key, value>> pairs
JournalInputs == {<<"Design Review", "Discussed X", "", "", None, <<"design">>, 1, None, None>>,
                  <<"alpha", "beta", "ship it", "", <<<<"k", "vee">>>>, None, 2, "s1", None>>}
JournalQueries == {"Design", "vee", "zzz"}
NewTitles == {"omega"}                \* UPDATE entries SET title = ?
MaxLengths == {10, 60, 100, 2000}     \* `max_length` of get_context_block
RecentHours == {0, 1}                 \* `include_recent_hours`; the clock counts hours
\* (new_name, new_type, new_salience) of update_entity
Changes == {<<None, None, None>>, <<"", "person", None>>, <<"a", None, None>>, <<"B", None, None>>,
            <<None, None, "foundational">>}

VARIABLES
  entities,      \* committed rows of table entities
  observations,  \* committed rows of table observations
  seq,           \* committed sqlite_sequence (AUTOINCREMENT counters)
  txn,           \* the open write transaction, owner = 0 when there is none
  clock,         \* datetime.now()
  pc,            \* per connection: position inside store_memory
  frame,         \* per connection: arguments and locals of store_memory
  ret,           \* per connection: how its last call ended
  entries,       \* committed rows of table entries (the_void.sqlite3)
  fts,           \* the FTS5 index entries_fts: postings and docsize rows
  entry_seq,     \* AUTOINCREMENT counter of entries
  log            \* history: <<id, arguments>> of each void_write_entry call that returned

jvars == <<entries, fts, entry_seq, log>>
vars == <<entities, observations, seq, txn, clock, pc, frame, ret, jvars>>

\* ------------------------------------------------------------- helpers
NoTxn == [owner |-> 0, entities |-> {}, observations |-> {}, seq |-> [entities |-> 0, observations |-> 0]]
NoFrame == [op |-> "none"]
NoRet == [op |-> "none", outcome |-> "none"]

\* `if x:` on an Optional[str]
Truthy(v) == v # None /\ v # ""

\* SELECT ... FROM entities WHERE name = ? AND database = ?
SelectEntity(E, name, database) == {e \in E : e.name = name /\ e.database = database}

\* UNIQUE(name, database): no row other than `id` holds the pair
UniqueAny(E, id, name, database) == TRUE
UniqueOK(E, id, name, database) ==
  \A e \in E : e.id # id => ~(e.name = name /\ e.database = database)

\* conn.close() with an open transaction rolls it back
CloseKeepsWrites(committed, working) == working
CloseWithoutCommit(committed, working) == committed

Committed == [entities |-> entities, observations |-> observations, seq |-> seq]

\* the database as connection p sees it
View(p) == IF txn.owner = p
           THEN [entities |-> txn.entities, observations |-> txn.observations, seq |-> txn.seq]
           ELSE Committed

\* the first writing statement of a connection opens the transaction
Write(p, db) == [owner |-> p, entities |-> db.entities, observations |-> db.observations, seq |-> db.seq]

\* INSERT INTO observations (entity_id, content, added_at)
InsertObservationLatestOnly(db, entity_id, content, now) ==
  [db EXCEPT !.observations = {o \in @ : o.entity_id # entity_id}
                                \cup {[id |-> db.seq.observations + 1, entity_id |-> entity_id,
                                       content |-> content, added_at |-> now]},
             !.seq.observations = @ + 1]
InsertObservation(db, entity_id, content, now) ==
  [db EXCEPT !.observations = @ \cup {[id |-> db.seq.observations + 1, entity_id |-> entity_id,
                                       content |-> content, added_at |-> now]},
             !.seq.observations = @ + 1]

\* INSERT INTO entities (name, entity_type, database, salience, created_at, updated_at)
InsertEntity(db, name, entity_type, database, salience, now) ==
  [db EXCEPT !.entities = @ \cup {[id |-> db.seq.entities + 1, name |-> name, entity_type |-> entity_type,
                                   database |-> database, salience |-> salience,
                                   created_at |-> now, updated_at |-> now]},
             !.seq.entities = @ + 1]

\* UPDATE entities SET updated_at = ? WHERE id = ?
TouchKeepsStamp(db, id, now) == db
TouchEntity(db, id, now) ==
  [db EXCEPT !.entities = {IF e.id = id THEN [e EXCEPT !.updated_at = now] ELSE e : e \in db.entities}]

Init ==
  /\ entities = {}
  /\ observations = {}
  /\ seq = [entities |-> 0, observations |-> 0]
  /\ txn = NoTxn
  /\ clock = 0
  /\ pc = [p \in Procs |-> "idle"]
  /\ frame = [p \in Procs |-> NoFrame]
  /\ ret = [p \in Procs |-> NoRet]
  /\ entries = {}
  /\ fts = [postings |-> {}, docsize |-> {}]
  /\ entry_seq = 0
  /\ log = <<>>

\* now_iso(): a reading of the wall clock, never earlier than the last one
Readings == {t \in {clock, clock + 1} : t <= MaxClock}

\* ------------------------------------------------------- store_memory
\* conn = get_db(); now = now_iso();
\* entity = SELECT id FROM entities WHERE name = ? AND database = ?; if entity:
SM_Begin(p, entity_name, observation, entity_type, database, salience, maxObs) ==
  /\ pc[p] = "idle"
  /\ seq.observations < maxObs
  /\ seq.entities < MaxEntities \/ SelectEntity(entities, entity_name, database) # {}
  /\ \E now \in Readings :
       LET found == SelectEntity(View(p).entities, entity_name, database)
       IN /\ clock' = now
          /\ frame' = [frame EXCEPT ![p] =
                         [op |-> "store_memory", entity_name |-> entity_name,
                          observation |-> observation, entity_type |-> entity_type,
                          database |-> database, salience |-> salience, now |-> now,
                          entity_id |-> IF found # {} THEN (CHOOSE e \in found : TRUE).id ELSE 0,
                          action |-> "none"]]
          /\ pc' = [pc EXCEPT ![p] = IF found # {} THEN "sm_append" ELSE "sm_create"]
  /\ ret' = [ret EXCEPT ![p] = NoRet]
  /\ UNCHANGED <<jvars, entities, observations, seq, txn>>

\* existing entity: INSERT INTO observations
SM_AppendObservation(p) ==
  /\ pc[p] = "sm_append"
  /\ txn.owner \in {0, p}
  /\ txn' = Write(p, InsertObservation(View(p), frame[p].entity_id, frame[p].observation, frame[p].now))
  /\ pc' = [pc EXCEPT ![p] = "sm_touch"]
  /\ UNCHANGED <<jvars, entities, observations, seq, clock, frame, ret>>

\* existing entity: UPDATE entities SET updated_at; action = "updated"
SM_Touch(p) ==
  /\ pc[p] = "sm_touch"
  /\ txn.owner = p
  /\ txn' = Write(p, TouchEntity(View(p), frame[p].entity_id, frame[p].now))
  /\ frame' = [frame EXCEPT ![p].action = "updated"]
  /\ pc' = [pc EXCEPT ![p] = "sm_commit"]
  /\ UNCHANGED <<jvars, entities, observations, seq, clock, ret>>

\* the except clause and the finally clause of store_memory
SM_Failed(p, error) ==
  /\ ret' = [ret EXCEPT ![p] = [op |-> "store_memory", outcome |-> "returned", success |-> FALSE,
                                error |-> error, at |-> pc[p]]]
  /\ pc' = [pc EXCEPT ![p] = "idle"]
  /\ frame' = [frame EXCEPT ![p] = NoFrame]
  /\ LET db == IF txn.owner = p THEN CloseWithoutCommit(Committed, View(p)) ELSE Committed
     IN /\ entities' = db.entities
        /\ observations' = db.observations
        /\ seq' = db.seq
  /\ txn' = IF txn.owner = p THEN NoTxn ELSE txn
  /\ UNCHANGED <<jvars, clock>>

\* new entity: INSERT INTO entities; entity_id = cursor.lastrowid
SM_CreateEntity(p) ==
  /\ pc[p] = "sm_create"
  /\ txn.owner \in {0, p}
  /\ IF UniqueOK(View(p).entities, 0, frame[p].entity_name, frame[p].database)
     THEN /\ txn' = Write(p, InsertEntity(View(p), frame[p].entity_name, frame[p].entity_type,
                                          frame[p].database, frame[p].salience, frame[p].now))
          /\ frame' = [frame EXCEPT ![p].entity_id = View(p).seq.entities + 1]
          /\ pc' = [pc EXCEPT ![p] = "sm_first"]
          /\ UNCHANGED <<jvars, entities, observations, seq, clock, ret>>
     ELSE SM_Failed(p, "UNIQUE constraint failed")

\* new entity: INSERT INTO observations; action = "created"
SM_FirstObservation(p) ==
  /\ pc[p] = "sm_first"
  /\ txn.owner = p
  /\ txn' = Write(p, InsertObservation(View(p), frame[p].entity_id, frame[p].observation, frame[p].now))
  /\ frame' = [frame EXCEPT ![p].action = "created"]
  /\ pc' = [pc EXCEPT ![p] = "sm_commit"]
  /\ UNCHANGED <<jvars, entities, observations, seq, clock, ret>>

\* conn.commit(); return {"success": True, ...}
SM_Commit(p) ==
  /\ pc[p] = "sm_commit"
  /\ txn.owner = p
  /\ entities' = txn.entities
  /\ observations' = txn.observations
  /\ seq' = txn.seq
  /\ txn' = NoTxn
  /\ ret' = [ret EXCEPT ![p] = [op |-> "store_memory", outcome |-> "returned", success |-> TRUE,
                                action |-> frame[p].action, entity_id |-> frame[p].entity_id,
                                entity_name |-> frame[p].entity_name, database |-> frame[p].database,
                                observation |-> frame[p].observation,
                                entity_type |-> frame[p].entity_type, salience |-> frame[p].salience]]
  /\ pc' = [pc EXCEPT ![p] = "idle"]
  /\ frame' = [frame EXCEPT ![p] = NoFrame]
  /\ UNCHANGED <<jvars, clock>>

\* a statement or the commit raises (I/O error, disk full, database is locked)
SM_StorageError(p) ==
  /\ pc[p] \in {"sm_append", "sm_touch", "sm_create", "sm_first", "sm_commit"}
  /\ SM_Failed(p, "storage error")

store_memory(p, inputs, maxObs) ==
  \/ \E i \in inputs : SM_Begin(p, i[1], i[2], i[3], i[4], i[5], maxObs)
  \/ SM_AppendObservation(p)
  \/ SM_Touch(p)
  \/ SM_CreateEntity(p)
  \/ SM_FirstObservation(p)
  \/ SM_Commit(p)

\* ------------------------------------------------------ update_entity
\* UPDATE entities SET <the truthy fields>, updated_at = ? WHERE id = ?
ApplyUpdatesNoStamp(e, new_name, new_type, new_salience, now) ==
  [e EXCEPT !.name = IF Truthy(new_name) THEN new_name ELSE @,
            !.entity_type = IF Truthy(new_type) THEN new_type ELSE @,
            !.salience = IF Truthy(new_salience) THEN new_salience ELSE @]
ApplyUpdates(e, new_name, new_type, new_salience, now) ==
  [e EXCEPT !.name = IF Truthy(new_name) THEN new_name ELSE @,
            !.entity_type = IF Truthy(new_type) THEN new_type ELSE @,
            !.salience = IF Truthy(new_salience) THEN new_salience ELSE @,
            !.updated_at = now]

UE_Return(p, args, outcome, success, error) ==
  ret' = [ret EXCEPT ![p] = [op |-> "update_entity", args |-> args, outcome |-> outcome,
                             success |-> success, error |-> error]]

update_entity(p, entity_name, database, new_name, new_type, new_salience) ==
  LET args == [entity_name |-> entity_name, database |-> database, new_name |-> new_name,
               new_type |-> new_type, new_salience |-> new_salience]
      found == SelectEntity(View(p).entities, entity_name, database)
  IN /\ pc[p] = "idle"
     /\ UNCHANGED <<jvars, observations, seq, txn, pc, frame>>
     /\ IF found = {}
        THEN \* if not entity: return not found
             /\ UE_Return(p, args, "returned", FALSE, "not found")
             /\ UNCHANGED <<jvars, entities, clock>>
        ELSE IF ~(Truthy(new_name) \/ Truthy(new_type) \/ Truthy(new_salience))
        THEN \* if not updates: return no-op
             /\ UE_Return(p, args, "returned", FALSE, "No updates specified")
             /\ UNCHANGED <<jvars, entities, clock>>
        ELSE \E now \in Readings :
               LET e == CHOOSE x \in found : TRUE
                   e2 == ApplyUpdates(e, new_name, new_type, new_salience, now)
               IN /\ clock' = now
                  /\ IF txn.owner # 0
                     THEN \* the write lock is held by another connection
                          /\ UE_Return(p, args, "raised", FALSE, "database is locked")
                          /\ UNCHANGED entities
                     ELSE IF ~UniqueOK(entities, e.id, e2.name, e2.database)
                     THEN \* sqlite3.IntegrityError leaves through try/finally
                          /\ UE_Return(p, args, "raised", FALSE, "UNIQUE constraint failed")
                          /\ UNCHANGED entities
                     ELSE \* conn.commit(); return success
                          /\ entities' = (entities \ {e}) \cup {e2}
                          /\ UE_Return(p, args, "returned", TRUE, "")

\* ----------------------------------------------------- SQL helpers
\* ORDER BY key DESC LIMIT k over a set R of <<key, row>> pairs: the first
\* k rows of some descending order; rows with equal keys come in any order
RECURSIVE FirstBy(_, _)
FirstBy(R, k) ==
  IF k = 0 \/ R = {}
  THEN {<<>>}
  ELSE LET top == {r \in R : \A x \in R : r[1] >= x[1]}
       IN UNION {{<<r[2]>> \o rest : rest \in FirstBy(R \ {r}, k - 1)} : r \in top}

UpperCase == "ABCDEFGHIJKLMNOPQRSTUVWXYZ"
LowerCase == "abcdefghijklmnopqrstuvwxyz"
FoldChar(c) ==
  IF \E i \in 1..26 : SubSeq(UpperCase, i, i) = c
  THEN LET i == CHOOSE j \in 1..26 : SubSeq(UpperCase, j, j) = c IN SubSeq(LowerCase, i, i)
  ELSE c
RECURSIVE Fold(_)
Fold(s) == IF s = "" THEN "" ELSE FoldChar(SubSeq(s, 1, 1)) \o Fold(SubSeq(s, 2, Len(s)))

\* text LIKE '%query%'; NULL LIKE ... is not true
Like(text, query) ==
  /\ text # None
  /\ \E i \in 1..(Len(text) - Len(query) + 1) : Fold(SubSeq(text, i, i + Len(query) - 1)) = Fold(query)

Range(f) == {f[i] : i \in DOMAIN f}

\* ---------------------------------------------------- retrieve_memory
\* SELECT * FROM entities WHERE name = ? AND database = ?; SELECT content,
\* added_at FROM observations WHERE entity_id = ? ORDER BY added_at DESC
retrieve_memory(p, entity_name, database) ==
  /\ pc[p] = "idle"
  /\ LET found == SelectEntity(View(p).entities, entity_name, database)
     IN IF found = {}
        THEN ret' = [ret EXCEPT ![p] = [op |-> "retrieve_memory", outcome |-> "returned", success |-> FALSE,
                                        args |-> [entity_name |-> entity_name, database |-> database],
                                        error |-> "not found"]]
        ELSE \E entity \in found :
               LET own == {o \in View(p).observations : o.entity_id = entity.id}
               IN \E obs \in FirstBy({<<o.added_at, o>> : o \in own}, Cardinality(own)) :
                    ret' = [ret EXCEPT ![p] =
                              [op |-> "retrieve_memory", outcome |-> "returned", success |-> TRUE,
                               args |-> [entity_name |-> entity_name, database |-> database],
                               entity |-> [name |-> entity.name, type |-> entity.entity_type,
                                           database |-> entity.database, salience |-> entity.salience,
                                           created |-> entity.created_at, updated |-> entity.updated_at,
                                           observations |-> [i \in 1..Len(obs) |->
                                                               [content |-> obs[i].content,
                                                                added |-> obs[i].added_at]]]]]
  /\ UNCHANGED <<jvars, entities, observations, seq, txn, clock, pc, frame>>

\* ---------------------------------------------------- search_memories
\* SELECT DISTINCT e.*, o.content, o.added_at FROM entities e LEFT JOIN observations o
JoinRows(E, O) ==
  {[e |-> e, content |-> o.content, added_at |-> o.added_at] : <<e, o>> \in {x \in E \X O : x[2].entity_id = x[1].id}}
  \cup {[e |-> e, content |-> None, added_at |-> None] : e \in {x \in E : \A o \in O : o.entity_id # x.id}}

\* WHERE (e.name LIKE ? OR o.content LIKE ?) {db_filter}
SearchRows(E, O, query, databases) ==
  {r \in JoinRows(E, O) :
     /\ Like(r.e.name, query) \/ Like(r.content, query)
     /\ databases # <<>> => r.e.database \in Range(databases)}

\* the loop that fills entities_map
RECURSIVE GroupRows(_, _)
GroupRows(rows, acc) ==
  IF rows = <<>>
  THEN acc
  ELSE LET r == Head(rows)
           acc1 == IF \E i \in 1..Len(acc) : acc[i].id = r.e.id
                   THEN acc
                   ELSE Append(acc, [id |-> r.e.id, name |-> r.e.name, type |-> r.e.entity_type,
                                     database |-> r.e.database, salience |-> r.e.salience,
                                     observations |-> <<>>])
           i == CHOOSE j \in 1..Len(acc1) : acc1[j].id = r.e.id
           acc2 == IF Truthy(r.content)
                   THEN [acc1 EXCEPT ![i].observations = Append(@, [content |-> r.content, added |-> r.added_at])]
                   ELSE acc1
       IN GroupRows(Tail(rows), acc2)

\* list(entities_map.values())
MapValues(acc) ==
  [i \in 1..Len(acc) |-> [name |-> acc[i].name, type |-> acc[i].type, database |-> acc[i].database,
                           salience |-> acc[i].salience, observations |-> acc[i].observations]]

search_memories(p, query, databases, limit) ==
  /\ pc[p] = "idle"
  /\ \E rows \in FirstBy({<<r.e.updated_at, r>> : r \in SearchRows(View(p).entities, View(p).observations, query, databases)}, limit) :
       LET results == MapValues(GroupRows(rows, <<>>))
       IN ret' = [ret EXCEPT ![p] = [op |-> "search_memories", outcome |-> "returned", success |-> TRUE,
                                     args |-> [query |-> query, databases |-> databases, limit |-> limit],
                                     count |-> Len(results), results |-> results]]
  /\ UNCHANGED <<jvars, entities, observations, seq, txn, clock, pc, frame>>

\* ------------------------------------------------------ list_entities
\* SELECT * FROM entities WHERE database = ? [AND salience = ?]
ListMatchesAnySalience(E, database, salience) == {e \in E : e.database = database}
ListMatches(E, database, salience) ==
  {e \in E : e.database = database /\ (Truthy(salience) => e.salience = salience)}

\* SELECT content, added_at FROM observations WHERE entity_id = ? ORDER BY added_at DESC LIMIT 3
RecentObservations(O, entity_id) == FirstBy({<<o.added_at, o>> : o \in {x \in O : x.entity_id = entity_id}}, 3)

\* the loop that fills result_list
RECURSIVE ListItems(_, _)
ListItems(ents, O) ==
  IF ents = <<>>
  THEN {<<>>}
  ELSE LET e == Head(ents)
       IN UNION {{<<[name |-> e.name, type |-> e.entity_type, salience |-> e.salience, updated |-> e.updated_at,
                     recent_observations |-> [i \in 1..Len(obs) |-> obs[i].content]]>> \o rest
                   : rest \in ListItems(Tail(ents), O)}
                 : obs \in RecentObservations(O, e.id)}

list_entities(p, database, salience, limit) ==
  /\ pc[p] = "idle"
  /\ \E ents \in FirstBy({<<e.updated_at, e>> : e \in ListMatches(View(p).entities, database, salience)}, limit) :
       \E items \in ListItems(ents, View(p).observations) :
         ret' = [ret EXCEPT ![p] = [op |-> "list_entities", outcome |-> "returned", success |-> TRUE,
                                    args |-> [database |-> database, salience |-> salience, limit |-> limit],
                                    database |-> database, count |-> Len(items), entities |-> items]]
  /\ UNCHANGED <<jvars, entities, observations, seq, txn, clock, pc, frame>>

\* -------------------------------------------------- get_context_block
Max(a, b) == IF a > b THEN a ELSE b

\* datetime.isoformat() of clock reading t (hour t, one microsecond past)
Iso(t) == "2026-01-01T0" \o SubSeq("0123456789", t + 1, t + 1) \o ":00:00.000001"

\* "\n".join(parts)
RECURSIVE JoinWith(_, _)
JoinWith(sep, parts) ==
  IF parts = <<>> THEN ""
  ELSE IF Len(parts) = 1 THEN parts[1]
  ELSE parts[1] \o sep \o JoinWith(sep, Tail(parts))

\* s[:k] of Python: a negative k drops the last -k characters
SliceTo(s, k) == IF k >= 0 THEN SubSeq(s, 1, IF k < Len(s) THEN k ELSE Len(s))
                 ELSE SubSeq(s, 1, Max(Len(s) + k, 0))

TruncationMarker == "\n...[truncated]\n[END MEMORY CONTEXT]\n\n"

\* if len(result) > max_length: result = result[:max_length - 50] + marker
Truncate(result, max_length) ==
  IF Len(result) > max_length THEN SliceTo(result, max_length - 50) \o TruncationMarker ELSE result

\* SELECT e.*, o.content FROM entities e LEFT JOIN observations o
\* WHERE e.salience = 'foundational' [AND e.database IN (...)]
FoundationalRows(E, O, databases) ==
  LET F == {e \in E : e.salience = "foundational" /\ (databases # <<>> => e.database \in Range(databases))}
  IN {[e |-> x[1], content |-> x[2].content, oid |-> x[2].id] : x \in {y \in F \X O : y[2].entity_id = y[1].id}}
     \cup {[e |-> e, content |-> None, oid |-> 0] : e \in {x \in F : \A o \in O : o.entity_id # x.id}}

\* the loop that fills entity_obs, keyed by name
RECURSIVE GroupByName(_, _)
GroupByName(rows, acc) ==
  IF rows = <<>>
  THEN acc
  ELSE LET r == Head(rows)
           acc1 == IF \E i \in 1..Len(acc) : acc[i].name = r.e.name
                   THEN acc
                   ELSE Append(acc, [name |-> r.e.name, type |-> r.e.entity_type, obs |-> <<>>])
           i == CHOOSE j \in 1..Len(acc1) : acc1[j].name = r.e.name
           acc2 == IF Truthy(r.content) THEN [acc1 EXCEPT ![i].obs = Append(@, r.content)] ELSE acc1
       IN GroupByName(Tail(rows), acc2)

\* for name, data in list(entity_obs.items())[:10]: f"{name} ({type}): {obs_text}"
CoreLines(acc) ==
  [i \in 1..(IF Len(acc) < 10 THEN Len(acc) ELSE 10) |->
     acc[i].name \o " (" \o acc[i].type \o "): " \o JoinWith("; ", SubSeq(acc[i].obs, 1, IF Len(acc[i].obs) < 3 THEN Len(acc[i].obs) ELSE 3))]

\* SELECT e.name, o.content FROM observations o JOIN entities e
\* WHERE o.added_at > ? [AND e.database IN (...)] ORDER BY o.added_at DESC LIMIT 10
RecentRows(E, O, cutoff, databases) ==
  {<<x[2].added_at, [name |-> x[1].name, content |-> x[2].content, oid |-> x[2].id]>> :
     x \in {y \in E \X O : /\ y[2].entity_id = y[1].id
                           /\ y[2].added_at > cutoff
                           /\ databases # <<>> => y[1].database \in Range(databases)}}

RecentLines(rows) == [i \in 1..Len(rows) |-> rows[i].name \o ": " \o rows[i].content]

ContextText(now, foundational, recent) ==
  JoinWith("\n", <<"[COMPANION MEMORY CONTEXT]", "Last updated: " \o Iso(now), "">>
                 \o (IF foundational # <<>>
                     THEN <<"## Core Knowledge">> \o CoreLines(GroupByName(foundational, <<>>)) \o <<"">>
                     ELSE <<>>)
                 \o (IF recent # <<>> THEN <<"## Recent Activity">> \o RecentLines(recent) \o <<"">> ELSE <<>>)
                 \o <<"[END MEMORY CONTEXT]", "">>)

get_context_block(p, max_length, include_recent_hours, databases) ==
  /\ pc[p] = "idle"
  /\ \E now \in Readings :
       LET frows == FoundationalRows(View(p).entities, View(p).observations, databases)
       IN \E foundational \in FirstBy({<<r.e.updated_at, r>> : r \in frows}, Cardinality(frows)) :
            \E recent \in FirstBy(RecentRows(View(p).entities, View(p).observations,
                                             now - include_recent_hours, databases), 10) :
              LET result == ContextText(now, foundational, recent)
              IN /\ clock' = now
                 /\ ret' = [ret EXCEPT ![p] =
                              [op |-> "get_context_block", outcome |-> "returned",
                               args |-> [max_length |-> max_length, include_recent_hours |-> include_recent_hours,
                                         databases |-> databases],
                               assembled |-> result, text |-> Truncate(result, max_length)]]
  /\ UNCHANGED <<jvars, entities, observations, seq, txn, pc, frame>>

\* ---------------------------------------------------------- the journal
\* json.dumps(tags or [], ensure_ascii=False)
RECURSIVE Quoted(_)
Quoted(items) == IF items = <<>> THEN <<>> ELSE <<"\"" \o Head(items) \o "\"">> \o Quoted(Tail(items))
DumpTagsNullable(tags) ==
  IF tags = None THEN "null" ELSE "[" \o JoinWith(", ", Quoted(tags)) \o "]"
DumpTags(tags) ==
  IF tags = None \/ tags = <<>> THEN "[]" ELSE "[" \o JoinWith(", ", Quoted(tags)) \o "]"

\* json.dumps(artifacts or {}, ensure_ascii=False)
RECURSIVE Pairs(_)
Pairs(items) ==
  IF items = <<>> THEN <<>>
  ELSE <<"\"" \o Head(items)[1] \o "\": \"" \o Head(items)[2] \o "\"">> \o Pairs(Tail(items))
DumpArtifacts(artifacts) ==
  IF artifacts = None \/ artifacts = <<>> THEN "{}" ELSE "{" \o JoinWith(", ", Pairs(artifacts)) \o "}"

\* json.loads: the string literals of a JSON text, in order of appearance
RECURSIVE ScanStrings(_, _, _)
ScanStrings(s, cur, inside) ==
  IF s = ""
  THEN <<>>
  ELSE LET c == SubSeq(s, 1, 1)
           rest == SubSeq(s, 2, Len(s))
       IN IF c = "\""
          THEN IF inside THEN <<cur>> \o ScanStrings(rest, "", FALSE) ELSE ScanStrings(rest, "", TRUE)
          ELSE ScanStrings(rest, IF inside THEN cur \o c ELSE "", inside)

\* json.loads(row["tags_json"] or "[]"): null gives None, an array its items
LoadTags(tags_json) ==
  LET text == IF tags_json = None \/ tags_json = "" THEN "[]" ELSE tags_json
  IN IF text = "null" THEN None ELSE ScanStrings(text, "", FALSE)

\* json.loads(row["artifacts_json"] or "{}"): null gives None, an object its
\* <<key, value>> pairs
LoadArtifacts(artifacts_json) ==
  LET text == IF artifacts_json = None \/ artifacts_json = "" THEN "{}" ELSE artifacts_json
      lits == ScanStrings(text, "", FALSE)
  IN IF text = "null" THEN None
     ELSE [i \in 1..(Len(lits) \div 2) |-> <<lits[2 * i - 1], lits[2 * i]>>]

\* the unicode61 tokenizer: maximal runs of letters and digits, case folded
Alnum == UpperCase \o LowerCase \o "0123456789"
IsAlnum(c) == \E i \in 1..Len(Alnum) : SubSeq(Alnum, i, i) = c
RECURSIVE Tokenize(_, _)
Tokenize(s, cur) ==
  IF s = ""
  THEN IF cur = "" THEN {} ELSE {cur}
  ELSE LET c == SubSeq(s, 1, 1)
           rest == SubSeq(s, 2, Len(s))
       IN IF IsAlnum(c)
          THEN Tokenize(rest, cur \o FoldChar(c))
          ELSE (IF cur = "" THEN {} ELSE {cur}) \cup Tokenize(rest, "")
Tokens(s) == Tokenize(s, "")

\* COALESCE(x, '')
Coalesce(x) == IF x = None THEN "" ELSE x

\* the six values a trigger hands to entries_fts for a row of entries
FtsValues(row) ==
  <<Coalesce(row.title), Coalesce(row.summary), Coalesce(row.decisions), Coalesce(row.open_loops),
    Coalesce(row.artifacts_json), Coalesce(row.tags_json)>>
EmptyValues == <<"", "", "", "", "", "">>

\* INSERT INTO entries_fts(rowid, ...) VALUES (...)
FtsInsert(idx, rowid, values) ==
  [postings |-> idx.postings \cup UNION {{<<rowid, c, t>> : t \in Tokens(values[c])} : c \in 1..6},
   docsize |-> idx.docsize \cup {rowid}]

\* INSERT INTO entries_fts(entries_fts, rowid, ...) VALUES ('delete', ...): removes
\* from the index the tokens of the values it is given, and the docsize row
FtsDelete(idx, rowid, values) ==
  [postings |-> {x \in idx.postings : ~(x[1] = rowid /\ x[3] \in Tokens(values[x[2]]))},
   docsize |-> idx.docsize \ {rowid}]

\* CREATE TRIGGER entries_ai AFTER INSERT ON entries
entries_ai(idx, new) == FtsInsert(idx, new.id, FtsValues(new))
\* CREATE TRIGGER entries_ad AFTER DELETE ON entries
entries_ad(idx, old) == FtsDelete(idx, old.id, EmptyValues)
\* CREATE TRIGGER entries_au AFTER UPDATE ON entries
entries_au(idx, old, new) == FtsInsert(FtsDelete(idx, old.id, EmptyValues), new.id, FtsValues(new))

\* INSERT INTO entries (...) VALUES (...); db.commit(); return {"ok": True, "id": entry_id}
void_write_entry(p, in) ==
  /\ pc[p] = "idle"
  /\ entry_seq < MaxEntries
  /\ \E now \in Readings :
       LET row == [id |-> entry_seq + 1, created_at |-> now, session_id |-> in[8], thread_id |-> in[9],
                   title |-> in[1], summary |-> in[2], decisions |-> in[3], open_loops |-> in[4],
                   artifacts_json |-> DumpArtifacts(in[5]), tags_json |-> DumpTags(in[6]),
                   importance |-> in[7]]
       IN /\ clock' = now
          /\ entries' = entries \cup {row}
          /\ fts' = entries_ai(fts, row)
          /\ entry_seq' = entry_seq + 1
          /\ log' = Append(log, <<row.id, in>>)
          /\ ret' = [ret EXCEPT ![p] = [op |-> "void_write_entry", outcome |-> "returned", ok |-> TRUE,
                                        id |-> row.id]]
  /\ UNCHANGED <<entities, observations, seq, txn, pc, frame>>

\* UPDATE entries SET title = ? WHERE id = ?, issued on the journal database
sql_update_title(id, title) ==
  /\ \E old \in entries :
       /\ old.id = id
       /\ old.title # title
       /\ LET new == [old EXCEPT !.title = title]
          IN /\ entries' = (entries \ {old}) \cup {new}
             /\ fts' = entries_au(fts, old, new)
  /\ UNCHANGED <<entities, observations, seq, txn, clock, pc, frame, ret, entry_seq, log>>

\* DELETE FROM entries WHERE id = ?, issued on the journal database
sql_delete_entry(id) ==
  /\ \E old \in entries :
       /\ old.id = id
       /\ entries' = entries \ {old}
       /\ fts' = entries_ad(fts, old)
  /\ UNCHANGED <<entities, observations, seq, txn, clock, pc, frame, ret, entry_seq, log>>

\* the columns entries_fts declares and reads from its content table, and
\* the columns table entries has
FtsColumns == <<"title", "summary", "decisions", "open_loops", "artifacts_text", "tags_text">>
EntriesColumns == {"id", "created_at", "session_id", "thread_id", "title", "summary", "decisions",
                   "open_loops", "artifacts_json", "tags_json", "importance"}
\* content='entries': SELECT <FtsColumns> FROM entries WHERE id = ? prepares
\* only when entries has every one of them
ContentReadable == \A i \in 1..Len(FtsColumns) : FtsColumns[i] \in EntriesColumns

\* entries_fts MATCH ? for a query of bare terms: every term is in the row's postings
FtsMatch(idx, query) ==
  {rowid \in {x[1] : x \in idx.postings} :
     \A t \in Tokens(query) : \E x \in idx.postings : x[1] = rowid /\ x[3] = t}

\* snippet(entries_fts, 1, '[', ']', ...): the summary with the matched terms marked
RECURSIVE Mark(_, _, _)
Mark(s, cur, terms) ==
  LET flush == IF cur # "" /\ Fold(cur) \in terms THEN "[" \o cur \o "]" ELSE cur
  IN IF s = ""
     THEN flush
     ELSE LET c == SubSeq(s, 1, 1)
              rest == SubSeq(s, 2, Len(s))
          IN IF IsAlnum(c) THEN Mark(rest, cur \o c, terms) ELSE flush \o c \o Mark(rest, "", terms)
Snippet(row, query) == Mark(Coalesce(row.summary), "", Tokens(query))

\* SELECT e.id, e.created_at, e.title, snippet(...) FROM entries_fts JOIN entries e
\* ON e.id = entries_fts.rowid WHERE entries_fts MATCH ? ORDER BY e.id DESC LIMIT ?
void_search(p, query, limit) ==
  /\ pc[p] = "idle"
  /\ LET hits == {e \in entries : e.id \in FtsMatch(fts, query)}
     IN \E rows \in FirstBy({<<e.id, e>> : e \in hits}, limit) :
          ret' = [ret EXCEPT ![p] =
                    IF rows = <<>> \/ ContentReadable
                    THEN [op |-> "void_search", outcome |-> "returned", ok |-> TRUE,
                          args |-> [query |-> query, limit |-> limit],
                          results |-> [i \in 1..Len(rows) |->
                                         [id |-> rows[i].id, created_at |-> rows[i].created_at,
                                          title |-> rows[i].title, snippet |-> Snippet(rows[i], query)]]]
                    ELSE \* sqlite3.OperationalError: no such column: T.artifacts_text
                         [op |-> "void_search", outcome |-> "raised", ok |-> FALSE,
                          args |-> [query |-> query, limit |-> limit], results |-> <<>>]]
  /\ UNCHANGED <<jvars, entities, observations, seq, txn, clock, pc, frame>>

\* SELECT * FROM entries WHERE id = ?
void_get_entry(p, entry_id) ==
  /\ pc[p] = "idle"
  /\ LET found == {e \in entries : e.id = entry_id}
     IN IF found = {}
        THEN ret' = [ret EXCEPT ![p] = [op |-> "void_get_entry", outcome |-> "returned", ok |-> FALSE,
                                        args |-> [entry_id |-> entry_id], error |-> "not_found"]]
        ELSE \E row \in found :
               ret' = [ret EXCEPT ![p] =
                         [op |-> "void_get_entry", outcome |-> "returned", ok |-> TRUE,
                          args |-> [entry_id |-> entry_id],
                          entry |-> [id |-> row.id, created_at |-> row.created_at,
                                     session_id |-> row.session_id, thread_id |-> row.thread_id,
                                     title |-> row.title, summary |-> row.summary,
                                     decisions |-> row.decisions, open_loops |-> row.open_loops,
                                     artifacts |-> LoadArtifacts(row.artifacts_json),
                                     tags |-> LoadTags(row.tags_json),
                                     importance |-> row.importance]]]
  /\ UNCHANGED <<jvars, entities, observations, seq, txn, clock, pc, frame>>

\* SELECT id, created_at, title, importance FROM entries ORDER BY id DESC LIMIT ?
void_list_recent(p, limit) ==
  /\ pc[p] = "idle"
  /\ \E rows \in FirstBy({<<e.id, e>> : e \in entries}, limit) :
       ret' = [ret EXCEPT ![p] =
                 [op |-> "void_list_recent", outcome |-> "returned", ok |-> TRUE,
                  args |-> [limit |-> limit],
                  entries |-> [i \in 1..Len(rows) |->
                                 [id |-> rows[i].id, created_at |-> rows[i].created_at,
                                  title |-> rows[i].title, importance |-> rows[i].importance]]]]
  /\ UNCHANGED <<jvars, entities, observations, seq, txn, clock, pc, frame>>

\* one call at a time
Calls(p) ==
  \/ store_memory(p, WriteInputs, MaxObs)
  \/ SM_StorageError(p)
  \/ \E n \in Names, d \in Namespaces, ch \in Changes :
       update_entity(p, n, d, ch[1], ch[2], ch[3])

Next == \E p \in SeqProcs : Calls(p)

Spec == Init /\ [][Next]_vars

\* store_memory and search_memories
NextSearch ==
  \E p \in SeqProcs :
    \/ store_memory(p, SearchInputs, MaxObs)
    \/ \E q \in Queries, dbs \in Filters, l \in 1..MaxLimit : search_memories(p, q, dbs, l)

SpecSearch == Init /\ [][NextSearch]_vars

\* store_memory and get_context_block
NextContext ==
  \E p \in SeqProcs :
    \/ store_memory(p, ContextInputs, MaxObs)
    \/ \E n \in MaxLengths, h \in RecentHours, dbs \in {<<>>, <<"default">>} : get_context_block(p, n, h, dbs)

SpecContext == Init /\ [][NextContext]_vars

\* the journal tools
NextJournal ==
  \E p \in SeqProcs :
    \/ \E in \in JournalInputs : void_write_entry(p, in)
    \/ \E q \in JournalQueries, l \in 1..MaxLimit : void_search(p, q, l)

SpecJournal == Init /\ [][NextJournal]_vars

\* the journal tools and row updates and deletes on table entries
NextJournalSQL ==
  \/ NextJournal
  \/ \E e \in entries, t \in NewTitles : sql_update_title(e.id, t)
  \/ \E e \in entries : sql_delete_entry(e.id)

SpecJournalSQL == Init /\ [][NextJournalSQL]_vars

\* store_memory and list_entities
NextList ==
  \E p \in SeqProcs :
    \/ store_memory(p, ListInputs, MaxObsList)
    \/ \E d \in Namespaces, s \in SalienceFilters, l \in 1..MaxLimit : list_entities(p, d, s, l)

SpecList == Init /\ [][NextList]_vars

\* (entity_name, observation, entity_type, database, salience) of the
\* store_memory calls that run side by side
ConcInputs == {<<"a", "b", "general", "default", "active">>, <<"a", "x", "person", "default", "foundational">>,
               <<"B", "b", "general", "default", "active">>}

\* sqlite3.connect(path) keeps the default busy timeout: a statement that
\* needs the write lock while another connection holds it waits, and when
\* the timeout ends raises OperationalError("database is locked")
SM_Locked(p) ==
  /\ pc[p] \in {"sm_append", "sm_create"}
  /\ txn.owner \notin {0, p}
  /\ SM_Failed(p, "database is locked")

\* store_memory calls of several connections, interleaved statement by statement
NextConc ==
  \E p \in Procs :
    \/ store_memory(p, ConcInputs, MaxObs)
    \/ SM_Locked(p)
    \/ SM_StorageError(p)

SpecConc == Init /\ [][NextConc]_vars

\* (entity_name, observation, entity_type, database, salience) and journal
\* arguments of the runs that use every tool
CoreInputs == {<<"a", "b", "person", "default", "foundational">>, <<"B", "x", "general", "default", "active">>}
CoreJournalInputs == {<<"alpha", "beta", "ship it", "", <<<<"k", "vee">>>>, None, 2, "s1", None>>}
CoreChanges == {<<"B", None, None>>, <<None, None, "active">>}

\* every tool of the record store and of the journal, one call at a time
NextCore ==
  \E p \in SeqProcs :
    \/ store_memory(p, CoreInputs, MaxObsCore)
    \/ SM_StorageError(p)
    \/ \E ch \in CoreChanges : update_entity(p, "a", "default", ch[1], ch[2], ch[3])
    \/ \E n \in Names : retrieve_memory(p, n, "default")
    \/ search_memories(p, "b", <<>>, MaxLimit)
    \/ list_entities(p, "default", None, MaxLimit)
    \/ get_context_block(p, 2000, 1, <<>>)
    \/ \E in \in CoreJournalInputs : void_write_entry(p, in)
    \/ void_search(p, "zzz", MaxLimit)
    \/ \E id \in 1..2 : void_get_entry(p, id)
    \/ void_list_recent(p, MaxLimit)

SpecCore == Init /\ [][NextCore]_vars

\* arguments of void_write_entry for the read-back runs; the last one is
\* the call void_append_snippet makes
RoundTripInputs ==
  JournalInputs \cup {<<"Snippet", "two words", "", "", <<<<"snippet", "two words">>>>, <<"snippet", "x">>, 3, None, "t1">>}

\* void_write_entry, void_get_entry and void_list_recent
NextRoundTrip ==
  \E p \in SeqProcs :
    \/ \E in \in RoundTripInputs : void_write_entry(p, in)
    \/ \E id \in 0..(MaxEntries + 1) : void_get_entry(p, id)
    \/ \E l \in 0..MaxLimit : void_list_recent(p, l)

SpecRoundTrip == Init /\ [][NextRoundTrip]_vars

\* ==================================================================
\* C1: no two entity rows share (name, database), in the committed
\* database and in the open transaction, whatever store_memory and
\* update_entity (renames included) have done.
UniquePairs(E) == \A e1, e2 \in E : (e1.name = e2.name /\ e1.database = e2.database) => e1 = e2
C1_UniqueNameNamespace == UniquePairs(entities) /\ UniquePairs(txn.entities)

\* a rename onto an existing pair was refused and both rows are still there
C1_Witness ==
  /\ ret[1].op = "update_entity"
  /\ ret[1].error = "UNIQUE constraint failed"
  /\ SelectEntity(entities, ret[1].args.new_name, ret[1].args.database) # {}
  /\ SelectEntity(entities, ret[1].args.entity_name, ret[1].args.database) # {}

\* C2: every committed entity row has at least one observation row, also
\* after the observation insert of the creating path failed.
C2_NoEmptyEntity ==
  \A e \in entities : \E o \in observations : o.entity_id = e.id

\* the first observation's insert failed after the entity insert succeeded
C2_Witness ==
  /\ ret[1].op = "store_memory"
  /\ ~ret[1].success
  /\ ret[1].at = "sm_first"
  /\ txn.owner = 0

\* C4: no operation ends by propagating an exception to its caller.
C4_NoExceptionEscapes == \A p \in Procs : ret[p].outcome # "raised"

\* C6: a successful store_memory adds exactly one observation row; for a
\* new pair it adds one entity row with the given type and salience
\* ("created"); for an existing pair it adds no entity row, sets that
\* entity's updated_at to the call's timestamp (not earlier than before)
\* and keeps its type and salience ("updated"); nothing else changes.
C6_Frame(p) ==
  LET f == frame[p]
      r == ret'[p]
      old == SelectEntity(entities, f.entity_name, f.database)
      newObs == observations' \ observations
  IN /\ observations \subseteq observations'
     /\ Cardinality(newObs) = 1
     /\ \A o \in newObs : o.content = f.observation /\ o.entity_id = r.entity_id /\ o.added_at = f.now
     /\ IF old = {}
        THEN /\ r.action = "created"
             /\ entities \subseteq entities'
             /\ Cardinality(entities' \ entities) = 1
             /\ \A e \in entities' \ entities :
                  /\ e.id = r.entity_id /\ e.name = f.entity_name /\ e.database = f.database
                  /\ e.entity_type = f.entity_type /\ e.salience = f.salience
        ELSE /\ r.action = "updated"
             /\ Cardinality(entities') = Cardinality(entities)
             /\ \A e \in entities :
                  IF e \in old
                  THEN /\ e.id = r.entity_id
                       /\ f.now >= e.updated_at
                       /\ [e EXCEPT !.updated_at = f.now] \in entities'
                  ELSE e \in entities'
C6_UpsertFrame ==
  [][\A p \in SeqProcs :
       (pc[p] = "sm_commit" /\ pc'[p] = "idle" /\ ret'[p].success) => C6_Frame(p)]_vars

\* an "updated" call that passed a type and salience other than the entity's
C6_Witness ==
  /\ ret[1].op = "store_memory"
  /\ ret[1].success
  /\ ret[1].action = "updated"
  /\ \E e \in entities :
       /\ e.id = ret[1].entity_id
       /\ e.entity_type # ret[1].entity_type
       /\ e.salience # ret[1].salience
       /\ e.updated_at > e.created_at

\* C7: update_entity returns not-found for an absent entity and the no-op
\* error when no field is given (a field is given when its value is
\* truthy), leaving the store unchanged in both cases; on success exactly
\* the given fields of that one entity change, its updated_at becomes the
\* call's timestamp, and all other rows stay as they are.
C7_Frame(p) ==
  LET r == ret'[p]
      a == r.args
      entity_name == a.entity_name
      database == a.database
      new_name == a.new_name
      new_type == a.new_type
      new_salience == a.new_salience
      old == SelectEntity(entities, entity_name, database)
      given == Truthy(new_name) \/ Truthy(new_type) \/ Truthy(new_salience)
  IN /\ observations' = observations
     /\ old = {} => r.outcome = "returned" /\ ~r.success /\ r.error = "not found"
     /\ (old # {} /\ ~given) => r.outcome = "returned" /\ ~r.success /\ r.error = "No updates specified"
     /\ ~r.success => entities' = entities
     /\ r.success =>
          /\ old # {} /\ given
          /\ \E e \in old : \E e2 \in entities' :
               /\ entities' \ {e2} = entities \ {e}
               /\ e2.id = e.id /\ e2.database = e.database /\ e2.created_at = e.created_at
               /\ e2.name = (IF Truthy(new_name) THEN new_name ELSE e.name)
               /\ e2.entity_type = (IF Truthy(new_type) THEN new_type ELSE e.entity_type)
               /\ e2.salience = (IF Truthy(new_salience) THEN new_salience ELSE e.salience)
               /\ e2.updated_at = clock' /\ e2.updated_at >= e.updated_at
C7_UpdateFrame ==
  [][\A p \in SeqProcs :
       (pc[p] = "idle" /\ pc'[p] = "idle" /\ ret'[p].op = "update_entity") => C7_Frame(p)]_vars

\* a successful rename: the old name is gone, the row kept its type and
\* creation time and its updated_at moved
C7_Witness ==
  /\ ret[1].op = "update_entity"
  /\ ret[1].success
  /\ Truthy(ret[1].args.new_name) /\ ret[1].args.new_name # ret[1].args.entity_name
  /\ ret[1].args.new_type = None
  /\ \E e \in entities :
       /\ e.name = ret[1].args.new_name /\ e.database = ret[1].args.database
       /\ e.updated_at > e.created_at /\ e.updated_at = clock /\ e.entity_type = "general"

Min(a, b) == IF a < b THEN a ELSE b

\* C8: search_memories returns each matching entity at most once, with
\* all of its matching observations, in updated_at descending order,
\* inside the namespace filter, and min(limit, number of matching
\* entities) of them.
SearchMatches(query, databases) ==
  {e \in entities :
     /\ databases # <<>> => e.database \in Range(databases)
     /\ \/ Like(e.name, query)
        \/ \E o \in observations : o.entity_id = e.id /\ Like(o.content, query)}
C8_Result(r) ==
  LET a == r.args
      M == SearchMatches(a.query, a.databases)
      res == r.results
      ent(i) == SelectEntity(entities, res[i].name, res[i].database)
  IN /\ Len(res) = Min(a.limit, Cardinality(M))
     /\ \A i \in 1..Len(res) : ent(i) # {} /\ ent(i) \subseteq M
     /\ \A i, j \in 1..Len(res) : i # j => ent(i) # ent(j)
     /\ \A i \in 1..Len(res) : \A e \in ent(i) : \A o \in observations :
          (o.entity_id = e.id /\ Like(o.content, a.query))
            => [content |-> o.content, added |-> o.added_at] \in Range(res[i].observations)
     /\ \A i, j \in 1..Len(res) : i < j => \A e1 \in ent(i), e2 \in ent(j) : e1.updated_at >= e2.updated_at
     /\ \A i \in 1..Len(res) : a.databases # <<>> => res[i].database \in Range(a.databases)
C8_SearchGrouped == \A p \in Procs : ret[p].op = "search_memories" => C8_Result(ret[p])

\* C9: list_entities returns min(limit, number of matching entities)
\* entities of the given namespace (and salience when one is given), the
\* ones with the largest updated_at in descending order, each with its
\* min(3, number of observations) most recent observations by added_at.
C9_Recent(e, contents) ==
  LET O == {o \in observations : o.entity_id = e.id}
      k == Min(3, Cardinality(O))
  IN /\ Len(contents) = k
     /\ \E pick \in [1..k -> O] :
          /\ \A i, j \in 1..k : i # j => pick[i] # pick[j]
          /\ \A i \in 1..k : pick[i].content = contents[i]
          /\ \A i, j \in 1..k : i < j => pick[i].added_at >= pick[j].added_at
          /\ \A o \in O \ Range(pick) : \A i \in 1..k : pick[i].added_at >= o.added_at
C9_Result(r) ==
  LET a == r.args
      M == {e \in entities : e.database = a.database /\ (a.salience # None => e.salience = a.salience)}
      res == r.entities
      ent(i) == {e \in M : e.name = res[i].name}
      shown == UNION {ent(i) : i \in 1..Len(res)}
  IN /\ Len(res) = Min(a.limit, Cardinality(M)) /\ r.count = Len(res)
     /\ \A i \in 1..Len(res) : ent(i) # {}
     /\ \A i, j \in 1..Len(res) : i # j => ent(i) # ent(j)
     /\ \A i \in 1..Len(res) : \A e \in ent(i) :
          /\ res[i].salience = e.salience /\ res[i].type = e.entity_type /\ res[i].updated = e.updated_at
          /\ C9_Recent(e, res[i].recent_observations)
     /\ \A i, j \in 1..Len(res) : i < j => res[i].updated >= res[j].updated
     /\ \A e \in M \ shown : \A i \in 1..Len(res) : res[i].updated >= e.updated_at
C9_ListEntities == \A p \in Procs : ret[p].op = "list_entities" => C9_Result(ret[p])

\* a salience-filtered listing that cut an entity's four observations
\* down to the three most recent ones, which differ in content
C9_Witness ==
  /\ ret[1].op = "list_entities"
  /\ ret[1].args.salience = "foundational"
  /\ ret[1].count = 1
  /\ \E e \in entities :
       /\ e.database = ret[1].args.database /\ e.name = ret[1].entities[1].name
       /\ Cardinality({o \in observations : o.entity_id = e.id}) > 3
       /\ \E o1, o2 \in observations : o1.entity_id = e.id /\ o2.entity_id = e.id /\ o1.added_at < o2.added_at
  /\ Len(ret[1].entities[1].recent_observations) = 3
  /\ Cardinality(Range(ret[1].entities[1].recent_observations)) = 2

\* C5: get_context_block(max_length = N) returns at most N characters, and
\* when the assembled text is longer than N it returns the first N - 50
\* characters of it followed by the truncation marker and closing banner.
C5_Result(r) ==
  LET n == r.args.max_length
  IN /\ Len(r.text) <= n
     /\ Len(r.assembled) > n => r.text = SubSeq(r.assembled, 1, n - 50) \o TruncationMarker
C5_LengthBound == \A p \in Procs : ret[p].op = "get_context_block" => C5_Result(ret[p])

\* C3: the FTS index holds exactly the docsize row and the tokens of the
\* current content of every entry, and nothing for any other rowid: after
\* inserts, updates and deletes of entry rows.
IndexOf(E) == UNION {UNION {{<<e.id, c, t>> : t \in Tokens(FtsValues(e)[c])} : c \in 1..6} : e \in E}
C3_FtsInLockstep ==
  /\ fts.docsize = {e.id : e \in entries}
  /\ fts.postings = IndexOf(entries)

\* C10: void_search returns exactly the entries that hold the query's terms
\* in title, summary, decisions, open_loops, serialized artifacts or tags,
\* newest id first, up to limit; so a fresh entry is found by a title term.
JournalMatches(query) ==
  {e \in entries : \A t \in Tokens(query) : \E c \in 1..6 : t \in Tokens(FtsValues(e)[c])}
C10_Result(r) ==
  LET M == JournalMatches(r.args.query)
      res == r.results
  IN /\ r.outcome = "returned"
     /\ Len(res) = Min(r.args.limit, Cardinality(M))
     /\ \A i \in 1..Len(res) : \E e \in M : e.id = res[i].id /\ e.title = res[i].title
     /\ \A i, j \in 1..Len(res) : i < j => res[i].id > res[j].id
     /\ \A e \in M : \A i \in 1..Len(res) : e.id <= res[i].id \/ \E j \in 1..Len(res) : res[j].id = e.id
C10_SearchJournal == \A p \in Procs : ret[p].op = "void_search" => C10_Result(ret[p])

\* ==================================================================
\* C11: every entity row has updated_at >= created_at, and no step
\* lowers the updated_at or changes the created_at of an entity row
\* (an observation append is such a step), also when the store_memory
\* calls of two connections interleave.
C11_Stamps ==
  /\ \A e \in entities' : e.updated_at >= e.created_at
  /\ \A e \in entities : \A e2 \in entities' :
       e2.id = e.id => /\ e2.created_at = e.created_at
                       /\ e2.updated_at >= e.updated_at
C11_TimestampsOrdered == [][C11_Stamps]_vars

\* ==================================================================
\* C12: the stores only accrete.  Across every step of every tool no
\* entity row, observation row or journal entry that exists before the
\* step is gone after it, no existing observation changes its content,
\* added_at or entity_id, and no existing journal entry changes a field;
\* a step of a read tool (retrieve_memory, search_memories,
\* list_entities, get_context_block, void_get_entry, void_list_recent,
\* void_search) leaves both databases as they were.
ReadTools == {"retrieve_memory", "search_memories", "list_entities", "get_context_block",
              "void_get_entry", "void_list_recent", "void_search"}
C12_Step ==
  /\ \A e \in entities : \E e2 \in entities' : e2.id = e.id
  /\ \A o \in observations : o \in observations'
  /\ \A j \in entries : j \in entries'
  /\ \A p \in SeqProcs :
       (pc[p] = "idle" /\ pc'[p] = "idle" /\ ret'[p].op \in ReadTools)
         => /\ UNCHANGED <<entities, observations, seq, txn>>
            /\ UNCHANGED <<entries, fts, entry_seq>>
C12_StoresAccrete == [][C12_Step]_vars

\* an entity with two observations and a journal entry are stored, and a
\* read tool has just returned that entity with both observations
C12_Witness ==
  /\ entries # {}
  /\ \E e \in entities : Cardinality({o \in observations : o.entity_id = e.id}) >= 2
  /\ ret[1].op = "retrieve_memory"
  /\ ret[1].success
  /\ Len(ret[1].entity.observations) >= 2

\* ==================================================================
\* C13: void_write_entry returns an id greater than every id returned
\* before; void_get_entry of a returned id gives back the title, summary,
\* decisions, open_loops and importance of that call, its artifacts as
\* the same mapping and its tags as the same list (absent artifacts as an
\* empty mapping, absent tags as an empty list); void_get_entry of any
\* other id answers not_found; void_list_recent(limit) returns the
\* min(limit, n) entries with the largest ids, largest id first.
LogIds == {log[i][1] : i \in 1..Len(log)}
C13_ReadBack(entry, id, in) ==
  /\ entry.id = id
  /\ entry.title = in[1]
  /\ entry.summary = in[2]
  /\ entry.decisions = in[3]
  /\ entry.open_loops = in[4]
  /\ (IF in[5] = None THEN <<>> ELSE in[5]) = entry.artifacts
  /\ (IF in[6] = None THEN <<>> ELSE in[6]) = entry.tags
  /\ entry.importance = in[7]
C13_Listed(r) ==
  LET listed == {r.entries[i].id : i \in 1..Len(r.entries)}
  IN /\ Len(r.entries) = Min(r.args.limit, Len(log))
     /\ listed \subseteq LogIds
     /\ \A i \in 1..Len(r.entries) : \A j \in 1..Len(r.entries) :
          i < j => r.entries[i].id > r.entries[j].id
     /\ \A x \in listed : \A y \in LogIds \ listed : x > y
C13_JournalRoundTrip ==
  /\ \A i \in 1..Len(log) : \A j \in 1..Len(log) : i < j => log[i][1] < log[j][1]
  /\ \A p \in SeqProcs :
       LET r == ret[p]
       IN /\ r.op = "void_write_entry" => (r.ok /\ log # <<>> /\ r.id = log[Len(log)][1])
          /\ r.op = "void_get_entry" =>
               LET hits == {i \in 1..Len(log) : log[i][1] = r.args.entry_id}
               IN IF hits = {}
                  THEN ~r.ok /\ r.error = "not_found"
                  ELSE r.ok /\ \A i \in hits : C13_ReadBack(r.entry, r.args.entry_id, log[i][2])
          /\ r.op = "void_list_recent" => (r.ok /\ C13_Listed(r))

\* three entries are stored and the one written without tags and with an
\* artifacts mapping has just been read back
C13_Witness ==
  /\ Len(log) >= 3
  /\ ret[1].op = "void_get_entry"
  /\ ret[1].ok
  /\ ret[1].args.entry_id < Len(log)
  /\ ret[1].entry.tags = <<>>
  /\ ret[1].entry.artifacts = <<<<"k", "vee">>>>

\* ==================================================================
\* C14: when the store_memory calls of several connections interleave
\* statement by statement, each call is all-or-nothing: the step that
\* returns success adds to the committed database exactly the call's one
\* observation (and exactly its entity row when it reports "created",
\* otherwise only the entity's updated_at changes), the step that returns
\* a failure and every other step leave the committed database as it was;
\* and in every committed state no two entity rows share (name, database)
\* and every observation belongs to an entity row that exists.
C14_Success(p) ==
  LET f == frame[p]
      r == ret'[p]
  IN /\ r.entity_id = f.entity_id
     /\ r.action = f.action
     /\ \E o \in observations' :
          /\ o \notin observations
          /\ observations' = observations \cup {o}
          /\ o.entity_id = f.entity_id
          /\ o.content = f.observation
          /\ o.added_at = f.now
     /\ IF r.action = "created"
        THEN \E e \in entities' :
               /\ \A x \in entities : x.id # e.id
               /\ entities' = entities \cup {e}
               /\ e = [id |-> f.entity_id, name |-> f.entity_name, entity_type |-> f.entity_type,
                       database |-> f.database, salience |-> f.salience,
                       created_at |-> f.now, updated_at |-> f.now]
        ELSE /\ r.action = "updated"
             /\ \E e \in entities :
                  /\ e.id = f.entity_id
                  /\ entities' = (entities \ {e}) \cup {[e EXCEPT !.updated_at = f.now]}
C14_Step ==
  /\ \A p \in Procs :
       (pc[p] # "idle" /\ pc'[p] = "idle")
         => IF ret'[p].success
            THEN C14_Success(p)
            ELSE UNCHANGED <<entities, observations, seq>>
  /\ (\A p \in Procs : pc'[p] # "idle" \/ pc[p] = "idle")
       => UNCHANGED <<entities, observations, seq>>
  /\ UniquePairs(entities')
  /\ \A o \in observations' : \E e \in entities' : e.id = o.entity_id
C14_AllOrNothing == [][C14_Step]_vars

\* two calls for the same unseen (name, database) ran side by side: one
\* returned "created", the other failed on the UNIQUE constraint, and the
\* committed database holds the one entity with its one observation
C14_Witness ==
  \E p \in Procs : \E q \in Procs \ {p} :
    /\ ret[p].op = "store_memory" /\ ret[p].success /\ ret[p].action = "created"
    /\ ret[q].op = "store_memory" /\ ~ret[q].success /\ ret[q].error = "UNIQUE constraint failed"
    /\ Cardinality(entities) = 1
    /\ Cardinality(observations) = 1
====
